---------------------------- MODULE Spec2Model ----------------------------
(***************************************************************************)
(* Two offline batch utilities of the tiny_yolo_sdnn tutorial:             *)
(*                                                                         *)
(*   convert_labels.py  the label converter (convert_label_format and the  *)
(*                      batch loop of its __main__ block);                 *)
(*   copy_struc.py      the dataset splitter (get_info_from_json and       *)
(*                      main: scan, shuffle, split, materialize).          *)
(*                                                                         *)
(* ConvSpec is one batch run of the converter, SplitSpec one run of the    *)
(* splitter, RerunSpec two runs of the splitter's scan and split over the  *)
(* same directories.                                                       *)
(*                                                                         *)
(* JSON values are records [t, v]: t is the JSON type as the code sees it  *)
(* ("missing" for an absent key), v the number when t = "num".  Pixel      *)
(* coordinates are kept exactly, in hundredths of a pixel: the code's      *)
(* (p / 100.0) * d is the real number p*d/100.                             *)
(***************************************************************************)
EXTENDS Integers, Sequences, FiniteSets, TLC

VARIABLES
    \* ---- converter (convert_labels.py) ----
    start_id,              \* args.start_id
    conv_phase,            \* "loop": between two directory entries;
                           \* "annotations": in convert_label_format's loop;
                           \* "done"; "crashed": an exception left the script
    total_entries_in_dir,
    success_count,
    fail_count,
    skipped_count,
    source_json_data,      \* the entry being handled; 'result' as far as read
    label_counter,         \* convert_label_format's locals
    converted_labels,
    warnings,              \* indices of the annotations reported as skipped
    converted_data,        \* what convert_label_format returned
    conv_log,              \* what the batch loop last printed about an entry
    out_files,             \* output_filename -> number of the entry whose
                           \* conversion it holds, 0 when there is no file
    \* ---- splitter (copy_struc.py) ----
    args,                  \* seed, split_ratio, the state of the directories
    phase,                 \* position in main(): "start", "scan", "mkdirs",
                           \* "copy", "summary"; "done"; "exited": sys.exit(1);
                           \* or the call whose exception left main()
    exit_status,           \* -1 while running, else the process exit status
    annotation_files,      \* the '.json' files in os.listdir order, as far
                           \* as the scan has come
    processed_annotations,
    found_pairs,
    missing_images_count,
    json_errors_count,
    train_pairs,
    test_pairs,
    copy_pos,              \* [split, idx, step]: the pair being copied
    copy_errors,
    error_log,             \* the pairs reported by "ERROR processing annotation"
    overwrite_warnings,
    overwrite_log,         \* the overwrite warnings printed: <<split, videoName>>
    out_dirs,              \* directories under output_dir
    out_images,            \* image files under output_dir:
                           \* <<split, videoName, image_filename>>
    out_labels,            \* [split][videoName] -> the annotation file whose
                           \* copy <split>/labels/<videoName>.json is, or NoLabel
    run,                   \* which invocation this is
    prev_split             \* the partition of the invocation before

conv_vars == <<start_id, conv_phase, total_entries_in_dir, success_count,
               fail_count, skipped_count, source_json_data, label_counter,
               converted_labels, warnings, converted_data, conv_log,
               out_files>>

split_vars == <<args, phase, exit_status, annotation_files,
                processed_annotations, found_pairs, missing_images_count,
                json_errors_count, train_pairs, test_pairs, copy_pos,
                copy_errors, error_log, overwrite_warnings, overwrite_log,
                out_dirs, out_images, out_labels, run, prev_split>>

vars == <<conv_vars, split_vars>>

(***************************************************************************)
(* Bounds of the model.                                                    *)
(***************************************************************************)
MaxEntries == 3        \* entries of the converter's input directory
MaxAnn == 2            \* annotations in one record's 'result'
MaxFiles == 3          \* '.json' files in the splitter's annotation directory

(***************************************************************************)
(* JSON values.                                                            *)
(***************************************************************************)
Absent == [t |-> "missing", v |-> 0]
Null == [t |-> "null", v |-> 0]
Str == [t |-> "str", v |-> 0]
Num(n) == [t |-> "num", v |-> n]

(***************************************************************************)
(* The converter's inputs.  An annotation (one entry of 'result') is       *)
(* either not a JSON object at all (obj = FALSE) or an object with the     *)
(* keys the code reads.  'value' is "missing", "obj" or "notobj";          *)
(* 'rectanglelabels' is "missing", "empty", "notlist" or "list", and       *)
(* category is then its first element.                                     *)
(***************************************************************************)
Ann(category, ow, oh, value, rectanglelabels, x, y, width, height) ==
    [obj |-> TRUE, category |-> category,
     original_width |-> ow, original_height |-> oh,
     value |-> value, rectanglelabels |-> rectanglelabels,
     x |-> x, y |-> y, width |-> width, height |-> height]

Good == Ann("car", Num(4), Num(2), "obj", "list", Num(50), Num(50), Num(25), Num(25))
Inverted == Ann("bus", Num(4), Num(2), "obj", "list", Num(50), Num(50), Num(-25), Num(-10))
NegDims == Ann("cat", Num(-4), Num(-2), "obj", "list", Num(25), Num(50), Num(50), Num(25))
NoLabels == Ann("dog", Num(4), Num(2), "obj", "empty", Num(25), Num(50), Num(50), Num(25))
NoX == Ann("cow", Num(4), Num(2), "obj", "list", Absent, Num(50), Num(50), Num(25))
StrX == Ann("elk", Num(4), Num(2), "obj", "list", Str, Num(50), Num(50), Num(25))
NoValue == Ann("fox", Num(4), Num(2), "missing", "missing", Absent, Absent, Absent, Absent)
NoWidth == Ann("hen", Absent, Num(2), "obj", "list", Num(0), Num(0), Num(100), Num(100))
NoHeight == Ann("owl", Num(4), Absent, "obj", "empty", Num(0), Num(0), Num(100), Num(100))
NullWidth == Ann("yak", Null, Num(2), "obj", "notlist", Num(0), Num(0), Num(100), Num(100))
NotObject == [Ann("", Absent, Absent, "missing", "missing", Absent, Absent, Absent, Absent)
                EXCEPT !.obj = FALSE]

Annotations ==
    {Good, Inverted, NegDims, NoLabels, NoX, StrX, NoValue, NoWidth, NoHeight,
     NullWidth, NotObject}

\* task.data.image: a path string (directory part, stem, extension), a
\* non-string value, or absent.
ImagePath(dir, stem, ext) == [t |-> "str", dir |-> dir, stem |-> stem, ext |-> ext]
NoImage == [t |-> "missing", dir |-> "", stem |-> "", ext |-> ""]
NumImage == [t |-> "num", dir |-> "", stem |-> "", ext |-> ""]
ImagePaths == {ImagePath("/data/upload/", "img1", ".png"), ImagePath("", "img2", ".jpg")}

\* A directory entry: not a regular file, a file that does not decode, or a
\* decoded record.  result_t is the JSON type of 'result' ("missing" when the
\* key is absent, "obj" for a non-empty object).  For a list, result holds the
\* elements read so far: at most result[0] before the annotation loop, then
\* one more with each pass of the loop.
Entry(file, decodable, image, result_t, result) ==
    [file |-> file, decodable |-> decodable, image |-> image,
     result_t |-> result_t, result |-> result]

NoEntry == Entry(FALSE, FALSE, NoImage, "missing", <<>>)

Entries ==
    {Entry(FALSE, FALSE, NoImage, "missing", <<>>),
     Entry(TRUE, FALSE, NoImage, "missing", <<>>),
     Entry(TRUE, TRUE, NoImage, "list", <<>>),
     Entry(TRUE, TRUE, NumImage, "list", <<>>)}
    \cup {Entry(TRUE, TRUE, p, t, <<>>) : p \in ImagePaths, t \in {"missing", "obj", "list"}}
    \cup {Entry(TRUE, TRUE, p, "list", <<a>>) : p \in ImagePaths, a \in Annotations}

StartIds == {-1, 5, 99999999}

(***************************************************************************)
(* convert_label_format                                                    *)
(***************************************************************************)
Basename(image) == image.stem \o image.ext        \* os.path.basename
SplitextRoot(image) == image.stem                  \* os.path.splitext(...)[0]

\* f"{n:08d}": sign-aware zero fill to a width of at least 8 characters.
IdWidth == 8
DigitChars == <<"0", "1", "2", "3", "4", "5", "6", "7", "8", "9">>

RECURSIVE Decimal(_)
Decimal(n) ==
    IF n < 10 THEN <<DigitChars[n + 1]>>
    ELSE Append(Decimal(n \div 10), DigitChars[(n % 10) + 1])

RECURSIVE ZeroFill(_, _)
ZeroFill(s, width) ==
    IF Len(s) >= width THEN s ELSE ZeroFill(<<"0">> \o s, width)

Format08d(n) ==
    IF n < 0 THEN <<"-">> \o ZeroFill(Decimal(-n), IdWidth - 1)
    ELSE ZeroFill(Decimal(n), IdWidth)

\* Mutant of Box2d: width and height taken for the far corner.
Box2dExtentAsCorner(annotation, original_width, original_height) ==
    [x1 |-> annotation.x.v * original_width.v,
     x2 |-> annotation.width.v * original_width.v,
     y1 |-> annotation.y.v * original_height.v,
     y2 |-> annotation.height.v * original_height.v]

\* Lines 92-95, exactly, in hundredths of a pixel.
Box2d(annotation, original_width, original_height) ==
    [x1 |-> annotation.x.v * original_width.v,
     x2 |-> (annotation.x.v + annotation.width.v) * original_width.v,
     y1 |-> annotation.y.v * original_height.v,
     y2 |-> (annotation.y.v + annotation.height.v) * original_height.v]

\* What one pass of the annotation loop does with an annotation:
\*   "raise"  annotation.get fails outside the try (line 71);
\*   "fail"   the dimensions are None: return None (lines 74-76);
\*   "skip"   continue (line 83) or a caught exception (lines 113-118);
\*   "label"  a label is appended.
AnnotationOutcome(annotation, original_width, original_height) ==
    IF ~annotation.obj THEN "raise"
    ELSE IF original_width.t = "null" \/ original_height.t = "null" THEN "fail"
    ELSE IF annotation.value # "obj" THEN "skip"
    ELSE IF annotation.rectanglelabels # "list" THEN "skip"
    ELSE IF \E c \in {annotation.x, annotation.y, annotation.width, annotation.height} :
                c.t = "missing" THEN "skip"
    ELSE IF \E c \in {annotation.x, annotation.y, annotation.width, annotation.height,
                      original_width, original_height} : c.t # "num" THEN "skip"
    ELSE "label"

\* Mutant of NextLabelCounter: the counter moves on every pass.
CounterEveryPass(counter, outcome) == counter + 1

\* label_counter += 1 (line 99) is reached only when the label is built.
NextLabelCounter(counter, outcome) ==
    IF outcome = "label" THEN counter + 1 ELSE counter

MakeLabel(annotation, original_width, original_height, counter) ==
    [id |-> Format08d(counter),
     category |-> annotation.category,
     attributes |-> [occluded |-> FALSE, truncated |-> FALSE, crowd |-> FALSE],
     box2d |-> Box2d(annotation, original_width, original_height)]

\* The function's result: kind "ok" with data = <<target_frame>>, "none"
\* (return None), "raised" (an exception leaves the function).
ReturnNone == [kind |-> "none", data |-> <<>>]
Raised == [kind |-> "raised", data |-> <<>>]
NotCalled == [kind |-> "notcalled", data |-> <<>>]
Pending == [kind |-> "pending", data |-> <<>>]

TargetFrame(image, labels) ==
    [name |-> Basename(image), labels |-> labels,
     videoName |-> SplitextRoot(image), frameIndex |-> 0]

ReturnFrame(image, labels) ==
    [kind |-> "ok", data |-> <<TargetFrame(image, labels)>>]

\* Mutant of Prologue: missing dimensions do not stop the conversion.
PrologueWithoutDimensions(source_data) ==
    IF source_data.image.t = "missing" \/ source_data.result_t = "missing" THEN "none"
    ELSE IF source_data.image.t # "str" THEN "none"
    ELSE IF source_data.result_t = "list" /\ Len(source_data.result) = 0 THEN "empty"
    ELSE IF source_data.result_t = "obj" THEN "none"
    ELSE IF ~source_data.result[1].obj THEN "raise"
    ELSE "loop"

\* Lines 24-64, the part of convert_label_format before the annotation loop:
\*   "none"   return None (missing keys; the image path fails to process;
\*            KeyError or IndexError on result[0] or its dimensions);
\*   "empty"  'result' is empty: a frame without labels;
\*   "raise"  result[0] is not an object: the TypeError is not caught;
\*   "loop"   the dimensions are read and the loop starts.
Prologue(source_data) ==
    IF source_data.image.t = "missing" \/ source_data.result_t = "missing" THEN "none"
    ELSE IF source_data.image.t # "str" THEN "none"
    ELSE IF source_data.result_t = "list" /\ Len(source_data.result) = 0 THEN "empty"
    ELSE IF source_data.result_t = "obj" THEN "none"
    ELSE IF ~source_data.result[1].obj THEN "raise"
    ELSE IF source_data.result[1].original_width.t = "missing"
            \/ source_data.result[1].original_height.t = "missing" THEN "none"
    ELSE "loop"

(***************************************************************************)
(* The converter's batch loop (__main__).                                  *)
(***************************************************************************)
OutputFilename(image) == SplitextRoot(image) \o ".json"
OutputNames == {OutputFilename(p) : p \in ImagePaths}

\* Lines 179-208: what reading the entry and deriving the output name gives.
ReadEntry(e) ==
    IF ~e.decodable THEN "undecodable"
    ELSE IF e.image.t = "missing" THEN "keyerror"
    ELSE IF e.image.t # "str" THEN "exception"
    ELSE "read"

\* Mutant of Truthy: a frame without labels counts as nothing to save.
TruthyLabels(converted) ==
    converted.kind = "ok" /\ Len(converted.data) > 0
        /\ Len(converted.data[1].labels) > 0

\* if converted_data: (line 215)
Truthy(converted) == converted.kind = "ok" /\ Len(converted.data) > 0

\* args.start_id, handed to every call (line 212).
CallStartId(start, entries_so_far) == start

ConvInit ==
    /\ start_id \in StartIds
    /\ conv_phase = "loop"
    /\ total_entries_in_dir = 0
    /\ success_count = 0
    /\ fail_count = 0
    /\ skipped_count = 0
    /\ source_json_data = NoEntry
    /\ label_counter = 0
    /\ converted_labels = <<>>
    /\ warnings = <<>>
    /\ converted_data = NotCalled
    /\ conv_log = "start"
    /\ out_files = [n \in OutputNames |-> 0]

\* Lines 214-232: save what convert_label_format returned, or count the
\* failure.  write_ok is whether opening and writing the output file succeeds.
Save(converted, image, entry_no) ==
    /\ converted_data' = converted
    /\ conv_phase' = "loop"
    /\ UNCHANGED skipped_count
    /\ IF Truthy(converted)
       THEN \E write_ok \in BOOLEAN :
                IF write_ok
                THEN /\ out_files' = [out_files EXCEPT ![OutputFilename(image)] = entry_no]
                     /\ success_count' = success_count + 1
                     /\ conv_log' = "Successfully converted"
                     /\ UNCHANGED fail_count
                ELSE /\ fail_count' = fail_count + 1
                     /\ conv_log' = "Error writing output file"
                     /\ UNCHANGED <<success_count, out_files>>
       ELSE /\ fail_count' = fail_count + 1
            /\ conv_log' = "Conversion failed"
            /\ UNCHANGED <<success_count, out_files>>

\* The exception leaves convert_label_format and, line 212 being outside
\* any try, the script.
Propagate ==
    /\ converted_data' = Raised
    /\ conv_phase' = "crashed"
    /\ conv_log' = "Traceback"
    /\ UNCHANGED <<success_count, fail_count, skipped_count, out_files>>

\* convert_label_format's loop variables hold nothing: the loop was not
\* entered for this entry.
NoLocals ==
    /\ label_counter' = 0
    /\ converted_labels' = <<>>
    /\ warnings' = <<>>

\* One pass of the annotation loop, lines 70-118, over result[idx].
LoopBody(image, annotation, idx, original_width, original_height, counter, labels, warns, entry_no) ==
    LET outcome == AnnotationOutcome(annotation, original_width, original_height)
    IN  /\ label_counter' = NextLabelCounter(counter, outcome)
        /\ converted_labels' =
              IF outcome = "label"
              THEN Append(labels, MakeLabel(annotation, original_width,
                                            original_height, counter))
              ELSE labels
        /\ warnings' = IF outcome = "skip" THEN Append(warns, idx) ELSE warns
        /\ CASE outcome = "raise" -> Propagate
             [] outcome = "fail" -> Save(ReturnNone, image, entry_no)
             [] OTHER -> /\ conv_phase' = "annotations"
                         /\ converted_data' = Pending
                         /\ conv_log' = "Processing source file"
                         /\ UNCHANGED <<success_count, fail_count, skipped_count,
                                        out_files>>

\* One iteration of the loop over os.listdir(input_dir), lines 163-232, up
\* to the end of the first pass of convert_label_format's annotation loop.
ProcessEntry(e) ==
    /\ conv_phase = "loop"
    /\ total_entries_in_dir < MaxEntries
    /\ total_entries_in_dir' = total_entries_in_dir + 1
    /\ source_json_data' = e
    /\ UNCHANGED <<start_id, split_vars>>
    /\ IF ~e.file
       THEN /\ skipped_count' = skipped_count + 1
            /\ converted_data' = NotCalled
            /\ conv_log' = ""
            /\ NoLocals
            /\ UNCHANGED <<success_count, fail_count, out_files, conv_phase>>
       ELSE IF ReadEntry(e) # "read"
       THEN /\ fail_count' = fail_count + 1
            /\ converted_data' = NotCalled
            /\ conv_log' = "Error reading file"
            /\ NoLocals
            /\ UNCHANGED <<success_count, skipped_count, out_files, conv_phase>>
       ELSE LET start == CallStartId(start_id, total_entries_in_dir)
            IN  CASE Prologue(e) = "none" ->
                       /\ Save(ReturnNone, e.image, total_entries_in_dir + 1)
                       /\ NoLocals
                  [] Prologue(e) = "empty" ->
                       /\ Save(ReturnFrame(e.image, <<>>), e.image,
                               total_entries_in_dir + 1)
                       /\ NoLocals
                  [] Prologue(e) = "raise" ->
                       /\ Propagate
                       /\ NoLocals
                  [] Prologue(e) = "loop" ->
                       LoopBody(e.image, e.result[1], 1,
                                e.result[1].original_width,
                                e.result[1].original_height,
                                start, <<>>, <<>>, total_entries_in_dir + 1)

\* One more pass of the annotation loop: 'result' has a further element.
NextAnnotation(annotation) ==
    /\ conv_phase = "annotations"
    /\ Len(source_json_data.result) < MaxAnn
    /\ source_json_data' =
          [source_json_data EXCEPT !.result = Append(@, annotation)]
    /\ LoopBody(source_json_data.image, annotation,
                Len(source_json_data.result) + 1,
                source_json_data.result[1].original_width,
                source_json_data.result[1].original_height,
                label_counter, converted_labels, warnings, total_entries_in_dir)
    /\ UNCHANGED <<start_id, total_entries_in_dir, split_vars>>

\* 'result' is exhausted: the frame is assembled and returned (lines
\* 120-130) and the batch loop saves it.
EndOfResult ==
    /\ conv_phase = "annotations"
    /\ Save(ReturnFrame(source_json_data.image, converted_labels),
            source_json_data.image, total_entries_in_dir)
    /\ UNCHANGED <<start_id, total_entries_in_dir, source_json_data,
                   label_counter, converted_labels, warnings, split_vars>>

\* files_attempted, line 239.
FilesAttempted == total_entries_in_dir - skipped_count

\* The listing is exhausted: the summary is printed (lines 234-247), with
\* the warning of lines 244-245 when the counts do not add up.
PrintSummary ==
    /\ conv_phase = "loop"
    /\ conv_phase' = "done"
    /\ conv_log' = IF success_count + fail_count # FilesAttempted
                   THEN "Warning: Mismatch in processed file counts."
                   ELSE "Conversion Summary"
    /\ UNCHANGED <<start_id, total_entries_in_dir, success_count, fail_count,
                   skipped_count, source_json_data, label_counter,
                   converted_labels, warnings, converted_data, out_files,
                   split_vars>>

ConvNext ==
    \/ \E e \in Entries : ProcessEntry(e)
    \/ \E annotation \in Annotations : NextAnnotation(annotation)
    \/ EndOfResult
    \/ PrintSummary

\* The splitter is not running.
SplitIdle ==
    /\ args = <<>>
    /\ phase = "idle"
    /\ exit_status = -1
    /\ annotation_files = <<>>
    /\ processed_annotations = 0
    /\ found_pairs = <<>>
    /\ missing_images_count = 0
    /\ json_errors_count = 0
    /\ train_pairs = <<>>
    /\ test_pairs = <<>>
    /\ copy_pos = <<>>
    /\ copy_errors = 0
    /\ error_log = {}
    /\ overwrite_warnings = 0
    /\ overwrite_log = <<>>
    /\ out_dirs = {}
    /\ out_images = <<>>
    /\ out_labels = <<>>
    /\ run = 0
    /\ prev_split = <<>>

ConvStart == ConvInit /\ SplitIdle

ConvSpec == ConvStart /\ [][ConvNext]_vars

(***************************************************************************)
(* Properties of the converter.                                            *)
(***************************************************************************)
Range(f) == {f[i] : i \in DOMAIN f}

\* The indices 1..n that are not in skipped, ascending.
RECURSIVE Kept(_, _)
Kept(n, skipped) ==
    IF n = 0 THEN <<>>
    ELSE IF n \in skipped THEN Kept(n - 1, skipped)
    ELSE Append(Kept(n - 1, skipped), n)

\* The number a label id spells.
DigitOf(c) == CHOOSE d \in 0..9 : DigitChars[d + 1] = c

RECURSIVE DigitsValue(_)
DigitsValue(s) ==
    IF Len(s) = 0 THEN 0
    ELSE 10 * DigitsValue(SubSeq(s, 1, Len(s) - 1)) + DigitOf(s[Len(s)])

IdValue(id) == IF id[1] = "-" THEN 0 - DigitsValue(Tail(id)) ELSE DigitsValue(id)

OnlyDigits(id) == \A i \in 1..Len(id) : id[i] \in Range(DigitChars)

\* The labels of the record being converted, or just converted, exist.
LabelsInHand == conv_phase = "annotations" \/ converted_data.kind = "ok"

\* The annotation the i-th label was built from.
SourceOf(i) ==
    source_json_data.result[
        Kept(Len(source_json_data.result), Range(warnings))[i]]

\* C1: in a batch run, whatever was converted before, the labels of a record
\* carry the ids start_id, start_id+1, ... in input order, zero-filled to 8
\* characters; an annotation reported as skipped consumes no id, so every
\* annotation is either skipped or labelled, and the returned frame holds
\* exactly these labels.
C1_DenseIdsPerRecord ==
    LabelsInHand =>
        /\ Len(converted_labels) + Len(warnings) = Len(source_json_data.result)
        /\ \A i \in 1..Len(converted_labels) :
              LET id == converted_labels[i].id
              IN  /\ IdValue(id) = start_id + i - 1
                  /\ Len(id) >= IdWidth
                  /\ (start_id + i - 1 >= 0 /\ start_id + i - 1 < 100000000)
                        => (Len(id) = IdWidth /\ OnlyDigits(id))
                  /\ converted_labels[i].category = SourceOf(i).category
        /\ converted_data.kind = "ok" =>
              converted_data.data[1].labels = converted_labels

\* A record converted after an earlier successful one: its second
\* annotation got the first id because the first was skipped.
C1_Witness ==
    /\ success_count >= 1
    /\ total_entries_in_dir >= 2
    /\ converted_data.kind = "ok"
    /\ warnings = <<1>>
    /\ Len(converted_labels) = 1
    /\ converted_labels[1].id = Format08d(start_id)

\* C2: no exception leaves the per-item processing: convert_label_format
\* returns a frame or None, and the batch loop is never aborted.
C2_NoExceptionPropagates ==
    /\ converted_data.kind # "raised"
    /\ conv_phase # "crashed"

\* C7 as claimed: x1 <= x2 and y1 <= y2 for every label whose annotation has
\* width, height >= 0, whatever the dimensions.
C7_BoxOrdered ==
    LabelsInHand =>
        \A i \in 1..Len(converted_labels) :
            (SourceOf(i).width.v >= 0 /\ SourceOf(i).height.v >= 0)
                => /\ converted_labels[i].box2d.x1 <= converted_labels[i].box2d.x2
                   /\ converted_labels[i].box2d.y1 <= converted_labels[i].box2d.y2

\* C7 amended: the same, for records whose dimensions are not negative.
C7_BoxOrderedNonNegativeDims ==
    LabelsInHand =>
        \A i \in 1..Len(converted_labels) :
            (/\ SourceOf(i).width.v >= 0
             /\ SourceOf(i).height.v >= 0
             /\ source_json_data.result[1].original_width.v >= 0
             /\ source_json_data.result[1].original_height.v >= 0)
                => /\ converted_labels[i].box2d.x1 <= converted_labels[i].box2d.x2
                   /\ converted_labels[i].box2d.y1 <= converted_labels[i].box2d.y2

\* A label of positive extent under positive dimensions.
C7_Witness ==
    /\ converted_data.kind = "ok"
    /\ Len(converted_labels) >= 1
    /\ SourceOf(1).width.v > 0
    /\ source_json_data.result[1].original_width.v > 0
    /\ converted_labels[1].box2d.x1 > 0
    /\ converted_labels[1].box2d.x1 < converted_labels[1].box2d.x2
    /\ converted_labels[1].box2d.y1 < converted_labels[1].box2d.y2

\* The batch loop takes up entry e.
Takes(e) ==
    /\ conv_phase = "loop"
    /\ total_entries_in_dir' = total_entries_in_dir + 1
    /\ source_json_data' = e

\* A record with a non-empty 'result' whose first annotation is an object
\* without 'original_width' or without 'original_height'.
MissingDimension(e) ==
    /\ e.file /\ e.decodable /\ e.image.t = "str"
    /\ e.result_t = "list" /\ Len(e.result) >= 1
    /\ e.result[1].obj
    /\ \/ e.result[1].original_width.t = "missing"
       \/ e.result[1].original_height.t = "missing"

\* C8: such a record makes convert_label_format return None; nothing is
\* written, the failure is counted and the loop goes on.
C8_MissingDimensionFails ==
    [][\A e \in Entries :
          (Takes(e) /\ MissingDimension(e)) =>
              /\ converted_data' = ReturnNone
              /\ out_files' = out_files
              /\ fail_count' = fail_count + 1
              /\ success_count' = success_count
              /\ conv_log' = "Conversion failed"
              /\ conv_phase' = "loop"]_vars

\* The second entry of the batch lacked a dimension and the loop is ready
\* for the next one.
C8_Witness ==
    /\ MissingDimension(source_json_data)
    /\ total_entries_in_dir = 2
    /\ total_entries_in_dir < MaxEntries
    /\ converted_data = ReturnNone
    /\ fail_count >= 1
    /\ conv_phase = "loop"

\* A record with task.data.image and 'result': [].
EmptyResult(e) ==
    /\ e.file /\ e.decodable /\ e.image.t = "str"
    /\ e.result_t = "list" /\ Len(e.result) = 0

Content(json, name_t, name, video_t, video) ==
    [json |-> json, name_t |-> name_t, name |-> name,
     video_t |-> video_t, video |-> video]

ImageDir == {"a.png", "b.png", "c.png"}       \* the files of image_dir
Videos == {"va", "vc", "vz"}

FileContents ==
    {Content("list", "str", "a.png", "str", "va"),
     Content("list", "str", "b.png", "str", "va"),
     Content("list", "str", "c.png", "str", "vc"),
     Content("list", "str", "zz.png", "str", "vz"),
     Content("undecodable", "missing", "", "missing", ""),
     Content("notlist", "missing", "", "missing", ""),
     Content("emptylist", "missing", "", "missing", ""),
     Content("firstnotobj", "missing", "", "missing", ""),
     Content("list", "missing", "", "str", "va"),
     Content("list", "empty", "", "str", "va"),
     Content("list", "str", "a.png", "missing", ""),
     Content("list", "str", "a.png", "empty", "")}

\* The n-th '.json' file os.listdir yields.
FileName(n) == "ann" \o Decimal(n)[1] \o ".json"

\* --split_ratio as a fraction <<numerator, denominator>>; the denominators
\* are powers of two, for which the code's float product n * ratio is exact.
Ratios == {<<0, 1>>, <<1, 4>>, <<1, 2>>, <<3, 4>>, <<1, 1>>}
Seeds == {42, 7}

Args ==
    [image_dir : BOOLEAN,
     annotation_dir : {"missing", "unreadable", "empty", "files"},
     split_ratio : Ratios,
     seed : Seeds,
     output : {"fresh", "stale"}]

Splits == <<"train", "test">>
NoLabel == ""

\* output_dir as an earlier run with the same arguments may have left it.
StaleDirs ==
    {<<"train", "labels">>, <<"test", "labels">>, <<"train", "images">>,
     <<"test", "images">>, <<"train", "images", "va">>, <<"test", "images", "va">>}
StaleImages == {<<"train", "va", "a.png">>, <<"test", "va", "a.png">>}
StaleLabels ==
    [sp \in {"train", "test"} |->
        [v \in Videos |-> IF v = "va" THEN "old.json" ELSE NoLabel]]
NoLabels1 == [sp \in {"train", "test"} |-> [v \in Videos |-> NoLabel]]

InitialDirs(a) == IF a.output = "stale" THEN StaleDirs ELSE {}
InitialImages(a) == IF a.output = "stale" THEN StaleImages ELSE {}
InitialLabels(a) == IF a.output = "stale" THEN StaleLabels ELSE NoLabels1

(***************************************************************************)
(* get_info_from_json                                                      *)
(***************************************************************************)
NoInfo == [ok |-> FALSE, image_filename |-> "", video_name |-> ""]

\* Mutant of get_info_from_json: only a missing key is rejected, an empty
\* string passes.
GetInfoAllowingEmpty(content) ==
    IF content.json # "list" THEN NoInfo
    ELSE IF content.name_t = "missing" \/ content.video_t = "missing" THEN NoInfo
    ELSE [ok |-> TRUE, image_filename |-> content.name,
          video_name |-> content.video]

get_info_from_json(content) ==
    IF content.json = "undecodable" THEN NoInfo             \* lines 43-51
    ELSE IF content.json # "list" THEN NoInfo               \* lines 40-42
    ELSE IF content.name_t # "str" \/ content.video_t # "str"
    THEN NoInfo                                             \* lines 29-37
    ELSE [ok |-> TRUE, image_filename |-> content.name,
          video_name |-> content.video]

(***************************************************************************)
(* random.seed, random.shuffle.  The generator stands for the library's:   *)
(* what the code relies on is that the numbers drawn are a function of the *)
(* seed and of the calls made.  shuffle is the library's loop              *)
(*   for i in reversed(range(1, len(x))): j = randbelow(i + 1); swap       *)
(***************************************************************************)
NextRandom(state) == (75 * state + 74) % 65537

Swap(x, i, j) == [x EXCEPT ![i] = x[j], ![j] = x[i]]

RECURSIVE ShuffleFrom(_, _, _)
ShuffleFrom(x, i, state) ==
    IF i < 2 THEN x
    ELSE LET drawn == NextRandom(state)
         IN  ShuffleFrom(Swap(x, i, (drawn % i) + 1), i - 1, drawn)

Shuffle(x, seed) == ShuffleFrom(x, Len(x), seed)

\* Mutant of SplitIndex: rounded up.
SplitIndexCeil(n, ratio) == (n * ratio[1] + ratio[2] - 1) \div ratio[2]

\* int(len(found_pairs) * args.split_ratio), line 158.
SplitIndex(n, ratio) == (n * ratio[1]) \div ratio[2]

\* not 0 < args.split_ratio < 1, line 95.
RatioInRange(ratio) == 0 < ratio[1] /\ ratio[1] < ratio[2]

(***************************************************************************)
(* main() of the splitter.                                                 *)
(***************************************************************************)
ConvIdle ==
    /\ start_id = 0
    /\ conv_phase = "idle"
    /\ total_entries_in_dir = 0
    /\ success_count = 0
    /\ fail_count = 0
    /\ skipped_count = 0
    /\ source_json_data = NoEntry
    /\ label_counter = 0
    /\ converted_labels = <<>>
    /\ warnings = <<>>
    /\ converted_data = NotCalled
    /\ conv_log = ""
    /\ out_files = [n \in OutputNames |-> 0]

SplitInit ==
    /\ ConvIdle
    /\ args \in Args
    /\ phase = "start"
    /\ exit_status = -1
    /\ annotation_files = <<>>
    /\ processed_annotations = 0
    /\ found_pairs = <<>>
    /\ missing_images_count = 0
    /\ json_errors_count = 0
    /\ train_pairs = <<>>
    /\ test_pairs = <<>>
    /\ copy_pos = [split |-> 0, idx |-> 0, step |-> ""]
    /\ copy_errors = 0
    /\ error_log = {}
    /\ overwrite_warnings = 0
    /\ overwrite_log = <<>>
    /\ out_dirs = InitialDirs(args)
    /\ out_images = InitialImages(args)
    /\ out_labels = InitialLabels(args)
    /\ run = 1
    /\ prev_split = <<>>

scan_vars == <<annotation_files, processed_annotations, found_pairs,
               missing_images_count, json_errors_count>>
copy_vars == <<copy_pos, copy_errors, error_log, overwrite_warnings,
               overwrite_log>>
out_vars == <<out_dirs, out_images, out_labels>>

\* Mutant of Exit: the script stops with status 0.
ExitZero ==
    /\ phase' = "exited"
    /\ exit_status' = 0

\* sys.exit(1)
Exit ==
    /\ phase' = "exited"
    /\ exit_status' = 1

\* An exception nothing catches: traceback, exit status 1.  The phase names
\* the call that raised.
Uncaught == {"os.listdir raised", "os.makedirs raised"}

Crash(raised) ==
    /\ phase' = raised
    /\ exit_status' = 1

\* Lines 88-116: the arguments are validated, the generator is seeded and
\* the annotation directory is listed.
ValidateAndList ==
    /\ phase = "start"
    /\ IF ~args.image_dir \/ args.annotation_dir = "missing"
          \/ ~RatioInRange(args.split_ratio)
       THEN Exit
       ELSE IF args.annotation_dir = "unreadable" THEN Crash("os.listdir raised")
       ELSE IF args.annotation_dir = "empty" THEN Exit
       ELSE /\ phase' = "scan"
            /\ UNCHANGED exit_status
    /\ UNCHANGED <<args, scan_vars, train_pairs, test_pairs, copy_vars,
                   out_vars, run, prev_split, conv_vars>>

\* The pair lines 126-132 build.
Pair(ann_filename, info) ==
    [image_filename |-> info.image_filename,
     video_name |-> info.video_name,
     annotation_filename |-> ann_filename]

\* What os.listdir yields next.  In a first run the directory is revealed as
\* it is listed: any content, up to MaxFiles files.  A second run lists the
\* files the first one saw, in the order annotation_files then holds.
NextFiles ==
    IF run = 1
    THEN IF processed_annotations < MaxFiles
         THEN {[name |-> FileName(processed_annotations + 1), content |-> c] :
                  c \in FileContents}
         ELSE {}
    ELSE IF processed_annotations < Len(annotation_files)
         THEN {annotation_files[processed_annotations + 1]}
         ELSE {}

\* The listing has no further file.
ListingExhausted ==
    IF run = 1 THEN processed_annotations >= 1
    ELSE processed_annotations = Len(annotation_files)

\* One pass of the scan loop, lines 118-138, over the next file listed.
ScanFile(file) ==
    /\ phase = "scan"
    /\ file \in NextFiles
    /\ LET ann_filename == file.name
           info == get_info_from_json(file.content)
       IN  /\ annotation_files' =
                 IF run = 1 THEN Append(annotation_files, file)
                 ELSE annotation_files
           /\ processed_annotations' = processed_annotations + 1
           /\ IF info.ok
              THEN IF info.image_filename \in ImageDir
                   THEN /\ found_pairs' = Append(found_pairs, Pair(ann_filename, info))
                        /\ UNCHANGED <<missing_images_count, json_errors_count>>
                   ELSE /\ missing_images_count' = missing_images_count + 1
                        /\ UNCHANGED <<found_pairs, json_errors_count>>
              ELSE /\ json_errors_count' = json_errors_count + 1
                   /\ UNCHANGED <<found_pairs, missing_images_count>>
    /\ UNCHANGED <<args, phase, exit_status, train_pairs, test_pairs,
                   copy_vars, out_vars, run, prev_split, conv_vars>>

\* The listing is exhausted: lines 140-161, the report, the exit when no
\* pair was found, the shuffle and the split.
ShuffleAndSplit ==
    /\ phase = "scan"
    /\ ListingExhausted
    /\ IF found_pairs = <<>>
       THEN /\ Exit
            /\ UNCHANGED <<found_pairs, train_pairs, test_pairs>>
       ELSE LET shuffled == Shuffle(found_pairs, args.seed)
                split_index == SplitIndex(Len(found_pairs), args.split_ratio)
            IN  /\ found_pairs' = shuffled
                /\ train_pairs' = SubSeq(shuffled, 1, split_index)
                /\ test_pairs' = SubSeq(shuffled, split_index + 1, Len(shuffled))
                /\ phase' = "mkdirs"
                /\ UNCHANGED exit_status
    /\ UNCHANGED <<args, annotation_files, processed_annotations,
                   missing_images_count, json_errors_count, copy_vars,
                   out_vars, run, prev_split, conv_vars>>

\* Lines 169-172: os.makedirs(<split>/labels) for both splits, outside any
\* try.  made is the number of calls that succeed.
MakeLabelDirs(made) ==
    /\ phase = "mkdirs"
    /\ out_dirs' = out_dirs \cup {<<Splits[k], "labels">> : k \in 1..made}
    /\ IF made < 2
       THEN /\ Crash("os.makedirs raised")
            /\ UNCHANGED copy_pos
       ELSE /\ phase' = "copy"
            /\ copy_pos' = [split |-> 1, idx |-> 0, step |-> "begin"]
            /\ UNCHANGED exit_status
    /\ UNCHANGED <<args, scan_vars, train_pairs, test_pairs, copy_errors,
                   error_log, overwrite_warnings, overwrite_log, out_images,
                   out_labels, run, prev_split, conv_vars>>

PairsOf(split) == IF split = 1 THEN train_pairs ELSE test_pairs

\* Where the copy loop goes after pair idx of a split.
After(split, idx) ==
    IF idx < Len(PairsOf(split))
    THEN [split |-> split, idx |-> idx + 1, step |-> "prepare"]
    ELSE IF split < 2
    THEN [split |-> split + 1, idx |-> 0, step |-> "begin"]
    ELSE [split |-> split, idx |-> idx, step |-> "end"]

Goto(pos) ==
    /\ copy_pos' = pos
    /\ phase' = IF pos.step = "end" THEN "summary" ELSE "copy"

\* Lines 174-184: a split begins; os.makedirs(<split>/images), outside any
\* try.
BeginSplit(ok) ==
    /\ phase = "copy"
    /\ copy_pos.step = "begin"
    /\ IF ok
       THEN /\ out_dirs' = out_dirs \cup {<<Splits[copy_pos.split], "images">>}
            /\ Goto(After(copy_pos.split, 0))
            /\ UNCHANGED exit_status
       ELSE /\ Crash("os.makedirs raised")
            /\ UNCHANGED <<out_dirs, copy_pos>>
    /\ UNCHANGED <<args, scan_vars, train_pairs, test_pairs, copy_errors,
                   error_log, overwrite_warnings, overwrite_log, out_images,
                   out_labels, run, prev_split, conv_vars>>

ThisPair == PairsOf(copy_pos.split)[copy_pos.idx]

\* except Exception, lines 209-213: the pair is reported and counted.
CopyError ==
    /\ copy_errors' = copy_errors + 1
    /\ error_log' = error_log \cup {<<Splits[copy_pos.split], ThisPair.annotation_filename>>}
    /\ Goto(After(copy_pos.split, copy_pos.idx))

\* Mutant of LabelExists: a label of the other split counts as well.
LabelExistsAnywhere(labels, split, video_name) ==
    \E sp \in {"train", "test"} : labels[sp][video_name] # NoLabel

\* if os.path.exists(target_annotation_path), line 200.
LabelExists(labels, split, video_name) == labels[Splits[split]][video_name] # NoLabel

\* Lines 188-202: the video directory is made, the target paths are built
\* and an existing label file is warned about.
PreparePair(ok) ==
    /\ phase = "copy"
    /\ copy_pos.step = "prepare"
    /\ IF ok
       THEN /\ out_dirs' = out_dirs \cup
                 {<<Splits[copy_pos.split], "images", ThisPair.video_name>>}
            /\ IF LabelExists(out_labels, copy_pos.split, ThisPair.video_name)
               THEN /\ overwrite_warnings' = overwrite_warnings + 1
                    /\ overwrite_log' =
                          Append(overwrite_log,
                                 <<Splits[copy_pos.split], ThisPair.video_name>>)
               ELSE UNCHANGED <<overwrite_warnings, overwrite_log>>
            /\ copy_pos' = [copy_pos EXCEPT !.step = "image"]
            /\ UNCHANGED <<phase, copy_errors, error_log>>
       ELSE /\ CopyError
            /\ UNCHANGED <<out_dirs, overwrite_warnings, overwrite_log>>
    /\ UNCHANGED <<args, exit_status, scan_vars, train_pairs, test_pairs,
                   out_images, out_labels, run, prev_split, conv_vars>>

\* What a shutil.copy2 call can do: copy the file; raise with the target
\* untouched; raise after the target was created or written in part.
CopyOutcomes == {"copied", "failed", "failed, file left"}

\* Mutant of AfterImageCopy: a failed image copy is not noticed.
AfterImageCopyUnnoticed(outcome) ==
    /\ copy_pos' = [copy_pos EXCEPT !.step = "label"]
    /\ UNCHANGED <<phase, copy_errors, error_log>>

\* Where control goes from line 205: on to line 206, or to the handler.
AfterImageCopy(outcome) ==
    IF outcome = "copied"
    THEN /\ copy_pos' = [copy_pos EXCEPT !.step = "label"]
         /\ UNCHANGED <<phase, copy_errors, error_log>>
    ELSE CopyError

\* Line 205: shutil.copy2 of the image.
CopyImage(outcome) ==
    /\ phase = "copy"
    /\ copy_pos.step = "image"
    /\ out_images' =
          IF outcome = "failed" THEN out_images
          ELSE out_images \cup
                  {<<Splits[copy_pos.split], ThisPair.video_name,
                     ThisPair.image_filename>>}
    /\ AfterImageCopy(outcome)
    /\ UNCHANGED <<args, exit_status, scan_vars, train_pairs, test_pairs,
                   overwrite_warnings, overwrite_log, out_dirs, out_labels,
                   run, prev_split, conv_vars>>

\* Lines 206-208: shutil.copy2 of the annotation, renamed <videoName>.json.
\* A file left by a failed copy is this pair's annotation, in part.
CopyLabel(outcome) ==
    /\ phase = "copy"
    /\ copy_pos.step = "label"
    /\ out_labels' =
          IF outcome = "failed" THEN out_labels
          ELSE [out_labels EXCEPT ![Splits[copy_pos.split]][ThisPair.video_name] =
                   ThisPair.annotation_filename]
    /\ IF outcome = "copied"
       THEN /\ Goto(After(copy_pos.split, copy_pos.idx))
            /\ UNCHANGED <<copy_errors, error_log>>
       ELSE CopyError
    /\ UNCHANGED <<args, exit_status, scan_vars, train_pairs, test_pairs,
                   overwrite_warnings, overwrite_log, out_dirs, out_images,
                   run, prev_split, conv_vars>>

\* Lines 217-229: the final summary; main() returns.
FinalSummary ==
    /\ phase = "summary"
    /\ phase' = "done"
    /\ exit_status' = 0
    /\ UNCHANGED <<args, scan_vars, train_pairs, test_pairs, copy_vars,
                   out_vars, run, prev_split, conv_vars>>

SplitNext ==
    \/ ValidateAndList
    \/ \E file \in NextFiles : ScanFile(file)
    \/ ShuffleAndSplit
    \/ \E made \in 0..2 : MakeLabelDirs(made)
    \/ \E ok \in BOOLEAN : BeginSplit(ok)
    \/ \E ok \in BOOLEAN : PreparePair(ok)
    \/ \E outcome \in CopyOutcomes : CopyImage(outcome)
    \/ \E outcome \in CopyOutcomes : CopyLabel(outcome)
    \/ FinalSummary

SplitSpec == SplitInit /\ [][SplitNext]_vars

(***************************************************************************)
(* Two runs on the same directories with the same arguments.  The first    *)
(* run is followed up to its split; the program is then started again and  *)
(* os.listdir, whose order is arbitrary, yields the same files in any      *)
(* order.  Materialization writes only under output_dir and has no part in *)
(* the partition, so it is left out of this specification.                 *)
(***************************************************************************)
Orderings(files) ==
    {[i \in 1..Len(files) |-> files[p[i]]] : p \in Permutations(1..Len(files))}

Rerun(listing) ==
    /\ run = 1
    /\ phase = "mkdirs"
    /\ listing \in Orderings(annotation_files)
    /\ run' = 2
    /\ prev_split' = [train |-> train_pairs, test |-> test_pairs]
    /\ annotation_files' = listing
    /\ processed_annotations' = 0
    /\ found_pairs' = <<>>
    /\ missing_images_count' = 0
    /\ json_errors_count' = 0
    /\ train_pairs' = <<>>
    /\ test_pairs' = <<>>
    /\ phase' = "start"
    /\ UNCHANGED <<args, exit_status, copy_vars, out_vars, conv_vars>>

RerunNext ==
    \/ ValidateAndList
    \/ \E file \in NextFiles : ScanFile(file)
    \/ ShuffleAndSplit
    \/ \E listing \in Orderings(annotation_files) : Rerun(listing)

RerunSpec == SplitInit /\ [][RerunNext]_vars

(***************************************************************************)
(* Properties of the splitter.                                             *)
(***************************************************************************)
Occurrences(x, seq) == Cardinality({i \in DOMAIN seq : seq[i] = x})

\* The file's JSON is a non-empty list whose first element is an object
\* carrying a non-empty 'name' and 'videoName'.
ValidFields(content) ==
    /\ content.json = "list"
    /\ content.name_t = "str"
    /\ content.video_t = "str"

\* C3: two runs with the same seed, ratio and candidate pairs produce the
\* same train and test partitions, whatever the order in which the
\* annotation files were listed.
C3_SamePartition ==
    (run = 2 /\ phase = "mkdirs") =>
        /\ Range(train_pairs) = Range(prev_split.train)
        /\ Range(test_pairs) = Range(prev_split.test)

\* C4: at the split of n >= 1 pairs with a ratio r in (0,1), train has
\* floor(n*r) pairs, train and test together have n, they are disjoint and
\* hold every candidate pair exactly once; test is never empty and train is
\* empty when n*r < 1.
C4_SplitSizes ==
    [][(phase = "scan" /\ phase' = "mkdirs") =>
        LET n == Len(found_pairs)
            r == args.split_ratio
            both == train_pairs' \o test_pairs'
        IN  (n >= 1 /\ 0 < r[1] /\ r[1] < r[2]) =>
              /\ Len(train_pairs') * r[2] <= n * r[1]
              /\ n * r[1] < (Len(train_pairs') + 1) * r[2]
              /\ Len(train_pairs') + Len(test_pairs') = n
              /\ Range(train_pairs') \cap Range(test_pairs') = {}
              /\ Range(both) = Range(found_pairs)
              /\ \A pair \in Range(found_pairs) : Occurrences(pair, both) = 1
              /\ test_pairs' # <<>>
              /\ (n * r[1] < r[2] => train_pairs' = <<>>)]_vars

C4_Witness ==
    /\ phase = "mkdirs"
    /\ args.split_ratio = <<3, 4>>
    /\ Len(train_pairs) = 2
    /\ Len(test_pairs) = 1

\* The positions of a split's list whose pairs carry video_name.
Sharing(split, video_name) ==
    {i \in DOMAIN PairsOf(split) : PairsOf(split)[i].video_name = video_name}

Last(positions) == CHOOSE i \in positions : \A j \in positions : j <= i

\* The materialization of a split ended with one label for video_name, the
\* copy of the pair processed last, and one overwrite warning for it.
OneLabelOneWarning(split, video_name) ==
    /\ out_labels[Splits[split]][video_name] =
          PairsOf(split)[Last(Sharing(split, video_name))].annotation_filename
    /\ Occurrences(<<Splits[split], video_name>>, overwrite_log) = 1

CopiedWithoutError(split, i) ==
    <<Splits[split], PairsOf(split)[i].annotation_filename>> \notin error_log

C6_PairingRejection ==
    [][(phase = "scan" /\ processed_annotations' = processed_annotations + 1) =>
        LET file == annotation_files'[processed_annotations']
            c == file.content
        IN  /\ ~ValidFields(c) =>
                /\ found_pairs' = found_pairs
                /\ json_errors_count' = json_errors_count + 1
                /\ missing_images_count' = missing_images_count
                /\ phase' = "scan"
                /\ exit_status' = -1
            /\ (ValidFields(c) /\ c.name \in ImageDir) =>
                /\ found_pairs' =
                      Append(found_pairs,
                             [image_filename |-> c.name, video_name |-> c.video,
                              annotation_filename |-> file.name])
                /\ json_errors_count' = json_errors_count
                /\ phase' = "scan"]_vars

C6_Witness ==
    /\ phase = "scan"
    /\ processed_annotations = 3
    /\ ~ValidFields(annotation_files[1].content)
    /\ json_errors_count = 1
    /\ Len(found_pairs) = 2
    /\ found_pairs[1].video_name = found_pairs[2].video_name

Terminated == exit_status # -1

\* One of the fatal preconditions holds: an input directory is missing, the
\* ratio is outside (0,1), no '.json' file is found, no valid pair is found.
FatalPrecondition ==
    \/ ~args.image_dir
    \/ args.annotation_dir = "missing"
    \/ ~(0 < args.split_ratio[1] /\ args.split_ratio[1] < args.split_ratio[2])
    \/ args.annotation_dir = "empty"
    \/ /\ args.annotation_dir = "files"
       /\ \A i \in DOMAIN annotation_files :
             ~(/\ ValidFields(annotation_files[i].content)
               /\ annotation_files[i].content.name \in ImageDir)

OutputUntouched ==
    /\ out_dirs = InitialDirs(args)
    /\ out_images = InitialImages(args)
    /\ out_labels = InitialLabels(args)

\* C10 as stated: the exit status is non-zero exactly when a fatal
\* precondition is violated, and then nothing under the output directory
\* was created or written; copy failures are counted and leave the status.
C10_ExitStatus ==
    Terminated =>
        /\ exit_status # 0 <=> FatalPrecondition
        /\ FatalPrecondition => OutputUntouched
        /\ copy_errors = Cardinality(error_log)

\* C10, amended: the exit status is also non-zero when os.listdir or an
\* os.makedirs outside the copy loop's try raises; after a failed
\* os.makedirs the output directory may already hold new directories.
C10_ExitStatusOrUncaught ==
    /\ copy_errors = Cardinality(error_log)
    /\ Terminated =>
        /\ exit_status # 0 <=> (FatalPrecondition \/ phase \in Uncaught)
        /\ (FatalPrecondition \/ phase = "os.listdir raised") => OutputUntouched
        /\ phase \in Uncaught =>
              (args.annotation_dir = "unreadable" \/ phase = "os.makedirs raised")
        /\ phase = "done" => exit_status = 0

C10_Witness ==
    /\ phase = "done"
    /\ exit_status = 0
    /\ copy_errors = 2
    /\ json_errors_count = 1

(***************************************************************************)
(* Accounting of the converter's batch loop.                               *)
(***************************************************************************)
\* Between two iterations and at the summary the three counters add up to
\* the entries scanned.
CountsBalanced ==
    conv_phase \in {"loop", "done"} =>
        success_count + fail_count + skipped_count = total_entries_in_dir

NoMismatchWarning == conv_log # "Warning: Mismatch in processed file counts."

\* When the script has ended, every regular file it took from the listing
\* was counted once, as a success or as a failure.
EveryFileCounted ==
    conv_phase \in {"done", "crashed"} =>
        success_count + fail_count = total_entries_in_dir - skipped_count

\* C11: after each iteration of the batch loop and at the summary,
\* success_count + fail_count + skipped_count is the number of entries
\* scanned; every regular file is counted exactly once, as a success or a
\* failure; the mismatch warning is never printed.
C11_ConverterAccounting ==
    /\ CountsBalanced
    /\ EveryFileCounted
    /\ NoMismatchWarning

(***************************************************************************)
(* Order of the two copies of a pair.                                      *)
(***************************************************************************)
\* The label at <split>/labels/<video_name>.json is the annotation of a pair
\* of that split whose image is at <split>/images/<video_name>/.
LabelHasImage(split, video_name) ==
    \E i \in DOMAIN PairsOf(split) :
        LET pair == PairsOf(split)[i]
        IN  /\ pair.video_name = video_name
            /\ pair.annotation_filename = out_labels[Splits[split]][video_name]
            /\ <<Splits[split], video_name, pair.image_filename>> \in out_images

\* C12: starting from an empty output directory, at every point of the run,
\* after copy failures and between the two copies of a pair as well, every
\* label file present is the annotation of a pair of the same split whose
\* image has been copied already.
C12_ImageBeforeLabel ==
    args.output = "fresh" =>
        \A split \in 1..2 : \A v \in Videos :
            out_labels[Splits[split]][v] # NoLabel => LabelHasImage(split, v)

\* Between the two copies of a pair, after an earlier pair's label was
\* copied and another pair's copy failed.
C12_Witness ==
    /\ args.output = "fresh"
    /\ phase = "copy"
    /\ copy_pos.step = "label"
    /\ copy_errors >= 1
    /\ \E v \in Videos : out_labels[Splits[copy_pos.split]][v] # NoLabel

=============================================================================
